---- MODULE Spec2Model ----
(***************************************************************************)
(* Model of the RAG email-draft assistant: the Express gateway route       *)
(* POST /ai-draft (routes/query.ts), its HTTP client (apiClient.ts), the   *)
(* Express error middleware (server.ts) and the Lambda draft orchestrator  *)
(* (lambda/query/index.js, exports.handler).  In the source tree these are *)
(* src/unnamed/part_001 (routes/query.ts), src/unnamed/part_000 lines      *)
(* 295-348 (apiClient.ts), src/backend/src/server.ts and                   *)
(* src/backend/README.md lines 180-399 (index.js; index.js line n is       *)
(* README.md line n).                                                      *)
(*                                                                         *)
(* Text is a sequence of tokens (pieces of text), so that trim, includes,  *)
(* join and template concatenation are computed.  A JSON/JavaScript value  *)
(* is a record [t, s]: its type tag and its text (digits for a number).    *)
(* A conversationHistory value carries in addition its items.              *)
(***************************************************************************)
EXTENDS Integers, Sequences, FiniteSets, TLC

\* ------------------------------------------------------------------ bounds
MaxHistory == 2
MaxPassages == 2
MaxSends == 2

\* ------------------------------------------------------- JavaScript values
Undefined == [t |-> "undefined", s |-> <<>>]
Null == [t |-> "null", s |-> <<>>]
Str(s) == [t |-> "string", s |-> s]
Num(d) == [t |-> "number", s |-> <<d>>]

\* A conversationHistory value: a primitive, or an array of items.
HPrim(v) == [t |-> v.t, s |-> v.s, items |-> <<>>]
HArr(items) == [t |-> "array", s |-> <<>>, items |-> items]

\* An item of a conversationHistory array: an object {role, content} or null.
Msg(role, content) == [t |-> "object", role |-> role, content |-> content]
NullMsg == [t |-> "null", role |-> Undefined, content |-> Undefined]

\* JavaScript truthiness (ToBoolean).
Truthy(v) ==
  CASE v.t = "undefined" -> FALSE
    [] v.t = "null" -> FALSE
    [] v.t = "string" -> Len(v.s) > 0
    [] v.t = "number" -> v.s # <<"0">>
    [] OTHER -> TRUE

\* x || null
OrNull(v) == IF Truthy(v) THEN v ELSE Null

\* White space removed by String.prototype.trim.
WhiteSpace == {" ", "\t", "\n"}

RECURSIVE TrimStart(_)
TrimStart(s) ==
  IF s # <<>> /\ Head(s) \in WhiteSpace THEN TrimStart(Tail(s)) ELSE s

RECURSIVE TrimEnd(_)
TrimEnd(s) ==
  IF s # <<>> /\ s[Len(s)] \in WhiteSpace
  THEN TrimEnd(SubSeq(s, 1, Len(s) - 1))
  ELSE s

\* A trim that leaves the text as it is.
TrimNone(s) == s

\* String.prototype.trim
Trim(s) == TrimEnd(TrimStart(s))

\* String.prototype.includes: needle occurs as a contiguous part of text.
Includes(text, needle) ==
  \E i \in 1..(Len(text) - Len(needle) + 1) :
    SubSeq(text, i, i + Len(needle) - 1) = needle

\* Array.prototype.join on texts.
RECURSIVE Join(_, _)
Join(texts, sep) ==
  IF texts = <<>> THEN <<>>
  ELSE IF Len(texts) = 1 THEN texts[1]
  ELSE texts[1] \o sep \o Join(Tail(texts), sep)

\* JSON.stringify of an object followed by JSON.parse on the other side:
\* a property whose value is undefined is not transmitted.
Wire(obj) == [k \in {f \in DOMAIN obj : obj[f].t # "undefined"} |-> obj[k]]

\* Reading a property of a received object; absent reads as undefined.
Get(obj, k, absent) == IF k \in DOMAIN obj THEN obj[k] ELSE absent

\* JSON text of a primitive value.
JsonText(v) ==
  CASE v.t = "string" -> <<"\"">> \o v.s \o <<"\"">>
    [] v.t = "null" -> <<"null">>
    [] OTHER -> v.s

\* JSON.stringify of an object with the given property order.
RECURSIVE StringifyProps(_, _)
StringifyProps(obj, keys) ==
  IF keys = <<>> THEN <<>>
  ELSE LET k == Head(keys)
           rest == StringifyProps(obj, Tail(keys))
       IN IF obj[k].t = "undefined" THEN rest
          ELSE <<"\"", k, "\":">> \o JsonText(obj[k])
                 \o (IF rest = <<>> THEN <<>> ELSE <<",">> \o rest)

Stringify(obj, keys) == <<"{">> \o StringifyProps(obj, keys) \o <<"}">>

\* ------------------------------------------------------- gateway: inputs
Haiku == <<"anthropic.claude-3-haiku-20240307-v1:0">>
Sonnet == <<"anthropic.claude-3-sonnet-20240229-v1:0">>
Opus == <<"anthropic.claude-3-opus-20240229-v1:0">>

\* routes/query.ts: const validModels = [...]
validModels == <<Str(Haiku), Str(Sonnet), Str(Opus)>>

\* routes/query.ts: ['customer', 'agent']
validRoles == <<Str(<<"customer">>), Str(<<"agent">>)>>

\* Array.prototype.includes on an array of primitives (SameValueZero).
ArrayIncludes(arr, v) == \E i \in 1..Len(arr) : arr[i] = v

Questions ==
  { Undefined, Str(<<>>), Str(<<" ", "\t">>), Str(<<" ", "X", " ">>),
    Str(<<"How do I reset my password?">>), Num("5") }

ModelIds ==
  { Undefined, Str(Haiku), Str(Sonnet), Str(Opus),
    Str(<<"not-a-real-model">>), Str(<<>>), Num("5") }

SessionIds ==
  { Undefined, Str(<<"session-123-abc">>), Str(<<>>), Num("42") }

HistoryItems ==
  { Msg(Str(<<"customer">>), Str(<<"I placed an order last week">>)),
    Msg(Str(<<"agent">>), Str(<<"Thanks for contacting us!">>)),
    Msg(Str(<<"bot">>), Str(<<"hi">>)),
    Msg(Str(<<"customer">>), Undefined),
    NullMsg }

SeqsUpTo(S, n) == UNION { [1..k -> S] : k \in 0..n }

Histories ==
  { HPrim(Undefined), HPrim(Str(<<>>)), HPrim(Str(<<"abc">>)) }
    \cup { HArr(items) : items \in SeqsUpTo(HistoryItems, MaxHistory) }

\* The parsed JSON bodies with the four properties the handler reads.
PlainBodies ==
  [ question : Questions, requestSessionId : SessionIds,
    modelId : ModelIds, conversationHistory : Histories ]

\* Properties of a body that the handler does not read.
ExtraFields == [ userId |-> Str(<<"u-1001">>) ]

\* Bodies with such a property, without a history or with an empty one.
ExtraBodies ==
  { body @@ ExtraFields :
      body \in [ question : Questions, requestSessionId : SessionIds,
                 modelId : ModelIds,
                 conversationHistory : { HPrim(Undefined), HArr(<<>>) } ] }

\* The parsed JSON bodies a client may send to POST /ai-draft.
RequestBodies == PlainBodies \cup ExtraBodies

NoBody ==
  [ question |-> Undefined, requestSessionId |-> Undefined,
    modelId |-> Undefined, conversationHistory |-> HPrim(Undefined) ]

\* -------------------------------------------------- gateway: validation
\* routes/query.ts line 16
QuestionRejected(question) ==
  \/ ~Truthy(question)
  \/ question.t # "string"
  \/ Len(Trim(question.s)) = 0

\* A model check that accepts every modelId.
ModelIdRejectedNever(modelId) == FALSE

\* routes/query.ts line 31
ModelIdRejected(modelId) ==
  Truthy(modelId) /\ ~ArrayIncludes(validModels, modelId)

\* msg.role / msg.content of an item that is not null.
Prop(msg, k) == IF msg.t = "object" THEN msg[k] ELSE Undefined

\* routes/query.ts lines 49-64: the loop over the messages, from item i on.
\* Reading a property of null throws a TypeError.
RECURSIVE CheckMessages(_, _)
CheckMessages(items, i) ==
  IF i > Len(items) THEN "ok"
  ELSE LET msg == items[i] IN
    IF msg.t = "null" THEN "TypeError"
    ELSE IF ~Truthy(Prop(msg, "role")) \/ ~Truthy(Prop(msg, "content"))
      THEN "missing"
    ELSE IF ~ArrayIncludes(validRoles, Prop(msg, "role")) THEN "badRole"
    ELSE CheckMessages(items, i + 1)

\* routes/query.ts lines 40-65
CheckHistory(h) ==
  IF ~Truthy(h) THEN "ok"
  ELSE IF h.t # "array" THEN "notArray"
  ELSE CheckMessages(h.items, 1)

\* routes/query.ts lines 13-65: the first check that stops the handler.
Validate(body) ==
  IF QuestionRejected(body.question) THEN "question"
  ELSE IF ModelIdRejected(body.modelId) THEN "modelId"
  ELSE CheckHistory(body.conversationHistory)

\* ---------------------------------------------------- gateway: responses
Envelope(status, error, message) ==
  [ statusCode |-> status, error |-> error, message |-> message ]

BadRequest(message) ==
  [ status |-> 400, body |-> Envelope(400, <<"Bad Request">>, message) ]

ValidationMessage(outcome) ==
  CASE outcome = "question" -> <<"Missing required parameter: question">>
    [] outcome = "modelId" ->
         <<"Invalid modelId. Must be one of: ">>
           \o Join(<<Haiku, Sonnet, Opus>>, <<", ">>)
    [] outcome = "notArray" -> <<"conversationHistory must be an array">>
    [] outcome = "missing" ->
         <<"Each conversation message must have role and content">>
    [] OTHER -> <<"Message role must be either \"customer\" or \"agent\"">>

ApiGatewayNeedle == <<"API", " ", "Gateway">>

\* A catch that passes the failure of the service on as 502.
RouteCatchBadGateway(message) ==
  IF Includes(message, ApiGatewayNeedle)
  THEN [ status |-> 502,
         body |-> Envelope(502, <<"Bad Gateway">>,
                    <<"Bedrock Knowledge Base temporarily unavailable">>) ]
  ELSE [ status |-> 500,
         body |-> Envelope(500, <<"Internal Server Error">>,
                    <<"Error invoking Bedrock model">>) ]

\* routes/query.ts lines 84-104: the catch of the route handler.
RouteCatch(message) ==
  IF Includes(message, ApiGatewayNeedle)
  THEN [ status |-> 503,
         body |-> Envelope(503, <<"Service Unavailable">>,
                    <<"Bedrock Knowledge Base temporarily unavailable">>) ]
  ELSE [ status |-> 500,
         body |-> Envelope(500, <<"Internal Server Error">>,
                    <<"Error invoking Bedrock model">>) ]

\* server.ts lines 86-93: the error-handling middleware.
ErrorMiddleware(message) ==
  [ status |-> 500,
    body |-> Envelope(500, <<"Internal Server Error">>, message) ]

\* A request that is the inbound body as it came.
QueryRequestWhole(body) == Wire(body)

\* routes/query.ts lines 68-73 and apiClient.ts line 327.
QueryRequest(body) ==
  Wire([ question |-> Str(Trim(body.question.s)),
         requestSessionId |-> body.requestSessionId,
         modelId |-> body.modelId,
         conversationHistory |-> body.conversationHistory ])

TypeErrorRole == <<"Cannot read properties of null (reading 'role')">>

\* ---------------------------------------------- HTTP between the layers
\* What the HTTP client of apiClient.ts sees: status, body text, parsed body.
NoHttp == [ status |-> 0, text |-> <<>>, json |-> <<>> ]

\* apiClient.ts line 330: response.ok
Ok(status) == status >= 200 /\ status <= 299

\* API Gateway answers on its own (Lambda failure 502, throttling 429,
\* missing route or WAF 403) with a {"message": ...} body.
ApiGatewayOwn(status, message) ==
  [ status |-> status,
    text |-> Stringify([message |-> Str(message)], <<"message">>),
    json |-> [message |-> Str(message)] ]

ApiGatewayRejections ==
  { ApiGatewayOwn(403, <<"Missing Authentication Token">>),
    ApiGatewayOwn(429, <<"Too Many Requests">>) }

\* Lambda proxy integration: the handler's statusCode and body string.
ProxyResponse(result) ==
  [ status |-> result.statusCode, text |-> result.text, json |-> result.body ]

\* An error message without the name of the service.
StatusErrorMessageBare(status, errorText) ==
  <<"returned status ", ToString(status), ": ">> \o errorText

\* apiClient.ts lines 332-334: the message of the error thrown on !ok.
StatusErrorMessage(status, errorText) ==
  <<"API", " ", "Gateway", " returned status ", ToString(status), ": ">>
    \o errorText

\* apiClient.ts lines 337-342: the value invokeQuery returns.
QueryResponse(data) ==
  [ response |-> Get(data, "response", Undefined),
    citation |-> OrNull(Get(data, "citation", Undefined)),
    sessionId |-> OrNull(Get(data, "sessionId", Undefined)) ]

\* routes/query.ts lines 79-83: res.status(200).json({...})
Success(result) ==
  [ status |-> 200,
    body |-> Wire([ response |-> result.response,
                    citation |-> result.citation,
                    sessionId |-> result.sessionId ]) ]

\* Messages of the errors fetch rejects with when the call cannot be made.
FetchErrors == { <<"fetch failed">>, <<"The operation was aborted">> }

\* Messages of the errors express.json() passes to next(err).
BodyParserErrors ==
  { <<"Unexpected token } in JSON at position 12">>,
    <<"request entity too large">> }

\* ------------------------------------------------- orchestrator: inputs
\* The event bodies a client may post to the API Gateway stage directly.
NullEventBody == [ isNull |-> TRUE, fields |-> <<>> ]
EventBody(fields) == [ isNull |-> FALSE, fields |-> fields ]

DirectEventBodies ==
  { NullEventBody,
    EventBody([ question |-> Str(<<"X">>),
                requestSessionId |-> Str(<<"session-123-abc">>) ]) }

Location(type, uri, url) == [ type |-> type, uri |-> uri, url |-> url ]
Passage(text, location) == [ text |-> text, location |-> location ]

Passages ==
  { Passage(Str(<<"Silver bars ship in 3 days.">>),
            Location(Str(<<"S3">>), Str(<<"s3://bucket/docs/guide.pdf">>),
                     Undefined)),
    Passage(Str(<<"Orders are placed online.">>),
            Location(Str(<<"WEB">>), Undefined,
                     Str(<<"https://example.com/faq">>))),
    Passage(Undefined, Location(Str(<<"S3">>), Undefined, Undefined)),
    Passage(Str(<<"Storage is insured.">>),
            Location(Undefined, Undefined, Undefined)) }

\* retrieveResponse.retrievalResults: absent, or a ranked list.
NoResults == [ present |-> FALSE, list |-> <<>> ]
Results(list) == [ present |-> TRUE, list |-> list ]

RetrievalResults ==
  { NoResults } \cup { Results(l) : l \in SeqsUpTo(Passages, MaxPassages) }

\* Messages of the errors the Bedrock SDK clients throw.
SdkErrors ==
  { <<"Rate exceeded">>,
    <<"Could not connect to the endpoint URL">> }

\* What InvokeModel returns: a body with content[0].text, a body without
\* content, or a body that is not JSON.
ModelText(text) == [ kind |-> "text", text |-> text ]
ModelOutputs ==
  { ModelText(<<"You can place an order online.">>),
    ModelText(<<"Thanks for reaching out!", "\n\n", "Thanks,", "\n",
                "{{CS_REP_NAME}}">>),
    [ kind |-> "noContent", text |-> <<>> ],
    [ kind |-> "notJson", text |-> <<>> ] }

\* index.js line 258: the Retrieve command sent with knowledgeBaseId
\* undefined.
MissingKnowledgeBaseId ==
  <<"No value provided for input HTTP label: knowledgeBaseId.">>

\* index.js line 258 and server.ts line 15: what the environment of the
\* process holds for the setting (unset, empty, set).
KnowledgeBaseIds == { Undefined, Str(<<>>), Str(<<"KB12345678">>) }
ApiGatewayUrls ==
  { Undefined, Str(<<>>),
    Str(<<"https://abc123.execute-api.us-east-1.amazonaws.com/prod">>) }

\* index.js lines 363-366: JSON.parse or reading content[0] throws.
ParseErrorMessage(kind) ==
  IF kind = "noContent"
  THEN <<"Cannot read properties of undefined (reading '0')">>
  ELSE <<"Unexpected token < in JSON at position 0">>

TypeErrorDestructure ==
  <<"Cannot destructure property 'question' of 'event.body' as it is null.">>

\* ------------------------------------------- orchestrator: computations
\* A block that is left out when the passage has no text.
SourceBlockSkipsEmpty(passage, idx) ==
  IF Truthy(passage.text)
  THEN <<"[Source ", ToString(idx), "]: ">> \o passage.text.s
  ELSE <<>>

\* index.js lines 286-289: one block of the context.
SourceBlock(passage, idx) ==
  <<"[Source ", ToString(idx), "]: ">>
    \o (IF Truthy(passage.text) THEN passage.text.s ELSE <<>>)

\* A context that reads "(none)" when nothing was retrieved.
ContextOrPlaceholder(results) ==
  IF results.present /\ Len(results.list) > 0
  THEN Join([i \in 1..Len(results.list) |-> SourceBlock(results.list[i], i)],
            <<"\n\n">>)
  ELSE <<"(none)">>

\* index.js lines 277-290
Context(results) ==
  IF results.present /\ Len(results.list) > 0
  THEN Join([i \in 1..Len(results.list) |-> SourceBlock(results.list[i], i)],
            <<"\n\n">>)
  ELSE <<>>

\* The citation taken from the last result.
CitationUrlLast(results) ==
  IF results.present /\ Len(results.list) > 0
  THEN LET location == results.list[Len(results.list)].location IN
       IF location.type = Str(<<"S3">>) THEN location.uri
       ELSE IF location.type = Str(<<"WEB">>) THEN location.url
       ELSE Null
  ELSE Null

\* index.js lines 278-300
CitationUrl(results) ==
  IF results.present /\ Len(results.list) > 0
  THEN LET location == results.list[1].location IN
       IF location.type = Str(<<"S3">>) THEN location.uri
       ELSE IF location.type = Str(<<"WEB">>) THEN location.url
       ELSE Null
  ELSE Null

\* The model id of the request, whatever it is.
SelectedModelIdAsGiven(modelId) == modelId

\* index.js lines 252-253
SelectedModelId(modelId) == IF Truthy(modelId) THEN modelId ELSE Str(Haiku)

\* index.js line 304: conversationHistory && conversationHistory.length > 0.
\* A truthy conversationHistory that reaches the handler is an array
\* (routes/query.ts line 41).
HasHistory(h) == Truthy(h) /\ Len(h.items) > 0

\* The labels of the two roles exchanged.
HistoryLineSwapped(msg) ==
  <<"[", (IF msg.role = Str(<<"customer">>) THEN "CS Rep" ELSE "Customer"),
    "]: ">> \o msg.content.s

\* index.js lines 306-309: one labeled line of the history.
HistoryLine(msg) ==
  <<"[", (IF msg.role = Str(<<"customer">>) THEN "Customer" ELSE "CS Rep"),
    "]: ">> \o msg.content.s

\* index.js lines 303-317
ConversationHistorySection(h) ==
  IF HasHistory(h)
  THEN <<"<conversation_history>", "\n">>
         \o Join([i \in 1..Len(h.items) |-> HistoryLine(h.items[i])],
                 <<"\n\n">>)
         \o <<"\n", "</conversation_history>", "\n\n">>
  ELSE <<>>

DraftWithKnowledge ==
  "Draft an email reply to answer the customer's inquiry using the company knowledge provided above."
DraftWithoutKnowledge ==
  "The company knowledge base does not contain information relevant to this inquiry. Draft an appropriate email reply."
ConsiderHistoryWithKnowledge ==
  " Consider the conversation history to maintain context and continuity."
ConsiderHistoryWithoutKnowledge ==
  " Consider the conversation history to maintain context."

\* A prompt whose instruction never mentions the history.
UserPromptNoMention(ctx, h, question) ==
  IF ctx # <<>>
  THEN ConversationHistorySection(h)
         \o <<"<company_knowledge>", "\n">> \o ctx
         \o <<"\n", "</company_knowledge>", "\n\n",
              "<customer_inquiry>", "\n">> \o question.s
         \o <<"\n", "</customer_inquiry>", "\n\n", DraftWithKnowledge>>
  ELSE ConversationHistorySection(h)
         \o <<"<customer_inquiry>", "\n">> \o question.s
         \o <<"\n", "</customer_inquiry>", "\n\n", DraftWithoutKnowledge>>

\* index.js lines 319-333
UserPrompt(ctx, h, question) ==
  IF ctx # <<>>
  THEN ConversationHistorySection(h)
         \o <<"<company_knowledge>", "\n">> \o ctx
         \o <<"\n", "</company_knowledge>", "\n\n",
              "<customer_inquiry>", "\n">> \o question.s
         \o <<"\n", "</customer_inquiry>", "\n\n", DraftWithKnowledge>>
         \o (IF HasHistory(h) THEN <<ConsiderHistoryWithKnowledge>>
             ELSE <<>>)
  ELSE ConversationHistorySection(h)
         \o <<"<customer_inquiry>", "\n">> \o question.s
         \o <<"\n", "</customer_inquiry>", "\n\n", DraftWithoutKnowledge>>
         \o (IF HasHistory(h) THEN <<ConsiderHistoryWithoutKnowledge>>
             ELSE <<>>)

Greeting == <<"Hi {{CUSTOMER_NAME}},">>

\* index.js lines 203-243 (the text of the prompt is one token).
SYSTEM_PROMPT == <<"SYSTEM_PROMPT">>

\* An invocation without the prefilled assistant turn.
InvokeInputNoPrefill(modelId, userPrompt) ==
  [ modelId |-> SelectedModelId(modelId),
    max_tokens |-> 1000,
    temperature |-> "0.7",
    system |-> SYSTEM_PROMPT,
    messages |-> << [ role |-> "user", content |-> userPrompt ] >> ]

\* index.js lines 337-357
InvokeInput(modelId, userPrompt) ==
  [ modelId |-> SelectedModelId(modelId),
    max_tokens |-> 1000,
    temperature |-> "0.7",
    system |-> SYSTEM_PROMPT,
    messages |-> << [ role |-> "user", content |-> userPrompt ],
                    [ role |-> "assistant", content |-> Greeting ] >> ]

NoInvokeInput ==
  [ modelId |-> Undefined, max_tokens |-> 0, temperature |-> "",
    system |-> <<>>, messages |-> <<>> ]

NoModelOutput == [ kind |-> "none", text |-> <<>> ]

\* index.js lines 257-267
RetrieveInput(knowledgeBaseId, question) ==
  [ knowledgeBaseId |-> knowledgeBaseId, text |-> question,
    numberOfResults |-> 5 ]

NoRetrieveInput ==
  [ knowledgeBaseId |-> Undefined, text |-> Undefined, numberOfResults |-> 0 ]

\* The email without the blank line after the greeting.
FullEmailNoBlankLine(generatedText) == Greeting \o generatedText

\* index.js line 370
FullEmail(generatedText) == Greeting \o <<"\n\n">> \o generatedText

ResultKeys == <<"response", "citation", "sessionId">>

\* index.js lines 382-399
makeResults(statusCode, responseText, citationText, responseSessionId) ==
  LET obj == [ response |-> Str(responseText), citation |-> citationText,
               sessionId |-> responseSessionId ]
  IN [ statusCode |-> statusCode, body |-> Wire(obj),
       text |-> Stringify(obj, ResultKeys) ]

\* A catch that leaves citation and session id out of the result.
FailureBare(message) ==
  makeResults(500, <<"Server side error: ">> \o message, Undefined,
              Undefined)

\* index.js lines 376-379: the catch of the handler.
Failure(message) ==
  makeResults(500, <<"Server side error: ">> \o message, Null, Null)

NoResult == [ statusCode |-> 0, body |-> <<>>, text |-> <<>> ]
NoResponse == [ status |-> 0, body |-> <<>> ]
NoMessage == <<>>

\* ------------------------------------------- two requests in flight
Requests == { 1, 2 }

\* One binding for both handler calls.
SlotShared(r) == 1

\* routes/query.ts lines 13, 68 and index.js lines 249, 277-278: const and
\* let inside the handlers, so each call has bindings of its own.
Slot(r) == r

NoCell ==
  [ queryRequest |-> <<>>, context |-> <<>>, citationUrl |-> Null,
    writer |-> 0 ]
NoRetrieve == [ kind |-> "none", results |-> NoResults, message |-> <<>> ]
NoInvoke == [ kind |-> "none", output |-> NoModelOutput, message |-> <<>> ]

\* The bodies, retrieval results and model outputs of the two requests.
PairBodies ==
  { [ question |-> Str(<<"How do I reset my password?">>),
      requestSessionId |-> Str(<<"session-123-abc">>),
      modelId |-> Undefined,
      conversationHistory |-> HPrim(Undefined) ],
    [ question |-> Str(<<" ", "X", " ">>),
      requestSessionId |-> Undefined,
      modelId |-> Str(Sonnet),
      conversationHistory |->
        HArr(<< Msg(Str(<<"customer">>),
                    Str(<<"I placed an order last week">>)) >>) ],
    [ question |-> Str(<<>>),
      requestSessionId |-> Str(<<"session-123-abc">>),
      modelId |-> Undefined,
      conversationHistory |-> HPrim(Undefined) ] }
PairResults == { results \in RetrievalResults : Len(results.list) <= 1 }

\* apiClient.ts lines 330-342 and routes/query.ts lines 79-104: what the
\* gateway answers for the result the handler returned.
GatewayAnswer(result) ==
  IF Ok(result.statusCode)
  THEN Success(QueryResponse(ProxyResponse(result).json))
  ELSE RouteCatch(StatusErrorMessage(result.statusCode, result.text))

\* --------------------------------------------------------------- the UI
\* RAGModels.js lines 1-18
modelList ==
  << [ modelId |-> Str(Haiku), modelName |-> <<"Claude 3 Haiku">> ] >>

\* selectedModel after the selection is removed (null).
NoModel == [ modelId |-> Undefined, modelName |-> <<>> ]

\* What the Autocomplete hands to handleChangeModel: an option or null.
UiModels == { modelList[1], NoModel }

\* What the user types into the Customer Inquiry field.
UiQuestions == { Str(<<>>), Str(<<"How do I make a lending offer?">>) }

\* App.js line 95
ErrorText ==
  <<"Error generating an answer. Please check your browser console, WAF configuration, Bedrock model access, and Lambda logs for debugging the error.">>

\* One entry of the chat; id is the number of the request it belongs to.
Entry(id, question, response, citation) ==
  [ id |-> id, question |-> question, response |-> response,
    citation |-> citation ]
NoEntry == Entry(0, Undefined, Undefined, Undefined)

\* What comes back for the request of the UI: fetch rejects ("network"),
\* res.json() rejects ("notJson"), or a JSON body with a status: the body
\* null, a draft, or the error envelope of the backend.
Reply(kind, status, response, citation, sessionId) ==
  [ kind |-> kind, status |-> status,
    data |-> [ response |-> response, citation |-> citation,
               sessionId |-> sessionId ] ]
NoReply == Reply("none", 0, Undefined, Undefined, Undefined)
BackendReplies ==
  { Reply("network", 0, Undefined, Undefined, Undefined),
    Reply("notJson", 502, Undefined, Undefined, Undefined),
    Reply("null", 200, Undefined, Undefined, Undefined),
    Reply("json", 200, Str(FullEmail(<<"You can place an order online.">>)),
          Str(<<"s3://bucket/docs/guide.pdf">>), Str(<<"session-123-abc">>)),
    Reply("json", 200, Str(FullEmail(<<"You can place an order online.">>)),
          Null, Null),
    Reply("json", 400, Undefined, Undefined, Undefined),
    Reply("json", 503, Undefined, Undefined, Undefined) }

\* App.js lines 68-72: the body of the request.
UiBody(sessionId, question, model) ==
  Wire([ requestSessionId |-> sessionId, question |-> question,
         modelId |-> model.modelId ])

NoPending ==
  [ present |-> FALSE, id |-> 0, history |-> <<>>, question |-> Undefined,
    body |-> <<>>, afterChange |-> FALSE ]

\* ------------------------------------------------------------------ state
VARIABLES
  origin,            \* who sent the request: "none", "gateway", "malformed", "direct"
  req,               \* req.body of the gateway request
  gwPc,              \* route handler: "idle", "awaiting", "done"
  gwResp,            \* the response the gateway sent: status and body
  gwCaught,          \* message of the error the gateway caught, if any
  invokeQueryCalls,  \* calls of apiClient.invokeQuery
  wire,              \* the body of the forwarded request
  fetchOutcome,      \* "none", "network", "status", "ok"
  apiResp,           \* the HTTP response of the API Gateway stage
  orchPc,            \* handler: "idle", "retrieving", "invoking", "done", "crashed"
  event,             \* event.body
  retrievalResults,  \* retrieveResponse.retrievalResults
  context,           \* let context
  citationUrl,       \* let citationUrl
  orchResult,        \* the value the handler returned
  orchCaught,        \* message of the error the handler caught, if any
  orchThrown,        \* message of the error that left the handler, if any
  retrieveCalls,     \* agentClient.send(RetrieveCommand) calls
  invokeCalls,       \* bedrockClient.send(InvokeModelCommand) calls
  invokeInput,       \* the input of the InvokeModel command
  modelOutput,       \* what InvokeModel returned
  retrieveInput,     \* the input of the Retrieve command
  retrieveOutcome,   \* the Retrieve call: "none", "returned", "threw"
  gwResponses,       \* responses the route handler or the middleware sent
  steps,             \* the steps taken for the request, in order
  lambda,            \* the function process: "none", "started"
  lambdaEnv,         \* process.env.KNOWLEDGE_BASE_ID of the function process
  server,            \* the gateway process: "none", "exited", "running"
  apiGatewayUrl,     \* process.env.API_GATEWAY_URL of the gateway process
  pReq,              \* two requests in flight: req.body of each
  pPc,               \* "idle", "retrieving", "invoking", "done" of each
  pRet,              \* what the Retrieve call of each request did
  pInv,              \* what the InvokeModel call of each request did
  pInvokeInput,      \* the input of the InvokeModel command of each
  pResp,             \* the response the gateway sent for each
  cells,             \* the bindings of the handler calls, by slot
  foreignRead,       \* a handler call read a binding another call wrote
  overlapped,        \* a step was taken while the other request was in flight
  uiHistory,         \* useState: history
  uiSelectedModel,   \* useState: selectedModel
  uiQuestion,        \* useState: question
  uiSpinner,         \* useState: spinner
  uiSessionId,       \* useState: sessionId
  uiPending,         \* the fetch in flight and what its callbacks closed over
  uiSends,           \* requests sent so far
  uiChanged,         \* the model was changed after the last request was sent
  uiLastReply,       \* what came back for the last request, once settled
  uiLastEntry,       \* the entry the callbacks added for the last request
  uiAdded,           \* id of the entry added last
  uiClearStamp       \* uiAdded when Clear was pressed last

gwVars ==
  << req, gwPc, gwResp, gwCaught, invokeQueryCalls, wire, fetchOutcome,
     gwResponses >>

orchVars ==
  << orchPc, event, retrievalResults, context, citationUrl, orchResult,
     orchCaught, orchThrown, retrieveCalls, invokeCalls, invokeInput,
     modelOutput, retrieveOutcome, retrieveInput >>

configVars == << lambda, lambdaEnv, server, apiGatewayUrl >>

pairVars ==
  << pReq, pPc, pRet, pInv, pInvokeInput, pResp, cells, foreignRead,
     overlapped >>

uiVars ==
  << uiHistory, uiSelectedModel, uiQuestion, uiSpinner, uiSessionId,
     uiPending, uiSends, uiChanged, uiLastReply, uiLastEntry, uiAdded,
     uiClearStamp >>

vars ==
  << origin, steps, gwVars, apiResp, orchVars, configVars, pairVars, uiVars >>

Init ==
  /\ origin = "none"
  /\ req = NoBody
  /\ gwPc = "idle"
  /\ gwResp = NoResponse
  /\ gwCaught = NoMessage
  /\ invokeQueryCalls = 0
  /\ wire = <<>>
  /\ fetchOutcome = "none"
  /\ apiResp = NoHttp
  /\ orchPc = "idle"
  /\ event = NullEventBody
  /\ retrievalResults = NoResults
  /\ context = <<>>
  /\ citationUrl = Null
  /\ orchResult = NoResult
  /\ orchCaught = NoMessage
  /\ orchThrown = NoMessage
  /\ retrieveCalls = 0
  /\ invokeCalls = 0
  /\ invokeInput = NoInvokeInput
  /\ modelOutput = NoModelOutput
  /\ retrieveInput = NoRetrieveInput
  /\ retrieveOutcome = "none"
  /\ gwResponses = 0
  /\ steps = <<>>
  /\ lambda = "none"
  /\ lambdaEnv = Undefined
  /\ server = "none"
  /\ apiGatewayUrl = Undefined
  /\ pReq = [r \in Requests |-> NoBody]
  /\ pPc = [r \in Requests |-> "idle"]
  /\ pRet = [r \in Requests |-> NoRetrieve]
  /\ pInv = [r \in Requests |-> NoInvoke]
  /\ pInvokeInput = [r \in Requests |-> NoInvokeInput]
  /\ pResp = [r \in Requests |-> NoResponse]
  /\ cells = [c \in Requests |-> NoCell]
  /\ foreignRead = FALSE
  /\ overlapped = FALSE
  /\ uiHistory = <<>>
  /\ uiSelectedModel = modelList[1]
  /\ uiQuestion = Str(<<>>)
  /\ uiSpinner = FALSE
  /\ uiSessionId = Undefined
  /\ uiPending = NoPending
  /\ uiSends = 0
  /\ uiChanged = FALSE
  /\ uiLastReply = NoReply
  /\ uiLastEntry = NoEntry
  /\ uiAdded = 0
  /\ uiClearStamp = 0

\* ---------------------------------------------------------- configuration
\* index.js lines 186-196: the function process starts; the clients are
\* built at module scope and KNOWLEDGE_BASE_ID is not looked at.
ColdStart(knowledgeBaseId) ==
  /\ lambda = "none"
  /\ lambda' = "started"
  /\ lambdaEnv' = knowledgeBaseId
  /\ UNCHANGED << origin, steps, gwVars, apiResp, orchVars, server,
                  apiGatewayUrl, pairVars, uiVars >>

\* server.ts lines 15-34: the gateway process reads API_GATEWAY_URL;
\* without it the process exits, with it the client is built and the
\* routes are served.
ServerStart(url) ==
  /\ server = "none"
  /\ apiGatewayUrl' = url
  /\ server' = IF ~Truthy(url) THEN "exited" ELSE "running"
  /\ UNCHANGED << origin, steps, gwVars, apiResp, orchVars, lambda,
                  lambdaEnv, pairVars, uiVars >>

\* ---------------------------------------------------------------- gateway
\* routes/query.ts lines 11-76: POST /ai-draft up to the await.
PostAiDraft(body) ==
  /\ origin = "none"
  /\ server = "running"
  /\ origin' = "gateway"
  /\ req' = body
  /\ steps' = <<"Validate">>
  /\ LET outcome == Validate(body) IN
       IF outcome = "ok"
       THEN /\ gwPc' = "awaiting"
            /\ wire' = QueryRequest(body)
            /\ invokeQueryCalls' = invokeQueryCalls + 1
            /\ UNCHANGED << gwResp, gwCaught, gwResponses >>
       ELSE IF outcome = "TypeError"
       THEN /\ gwPc' = "done"
            /\ gwCaught' = TypeErrorRole
            /\ gwResp' = RouteCatch(TypeErrorRole)
            /\ gwResponses' = gwResponses + 1
            /\ UNCHANGED << wire, invokeQueryCalls >>
       ELSE /\ gwPc' = "done"
            /\ gwResp' = BadRequest(ValidationMessage(outcome))
            /\ gwResponses' = gwResponses + 1
            /\ UNCHANGED << gwCaught, wire, invokeQueryCalls >>
  /\ UNCHANGED << fetchOutcome, apiResp, orchVars, configVars, pairVars, uiVars >>

\* server.ts lines 24 and 86-93: express.json() fails on the body and the
\* error middleware answers.
PostUnparsable(message) ==
  /\ origin = "none"
  /\ server = "running"
  /\ origin' = "malformed"
  /\ gwPc' = "done"
  /\ gwCaught' = message
  /\ gwResp' = ErrorMiddleware(message)
  /\ gwResponses' = gwResponses + 1
  /\ UNCHANGED << req, invokeQueryCalls, wire, fetchOutcome, apiResp, steps,
                  orchVars, configVars, pairVars, uiVars >>

\* A gateway that calls invokeQuery again when fetch rejects.
FetchRejectsRetry(message) ==
  /\ gwPc = "awaiting"
  /\ invokeQueryCalls < 3
  /\ invokeQueryCalls' = invokeQueryCalls + 1
  /\ fetchOutcome' = "network"
  /\ UNCHANGED << origin, req, gwPc, gwResp, gwCaught, wire, gwResponses,
                  apiResp, steps, orchVars, configVars, pairVars, uiVars >>

\* apiClient.ts lines 322, 343-346 and routes/query.ts lines 84-104:
\* fetch rejects, invokeQuery rethrows, the route handler catches.
FetchRejects(message) ==
  /\ gwPc = "awaiting"
  /\ fetchOutcome' = "network"
  /\ gwCaught' = message
  /\ gwResp' = RouteCatch(message)
  /\ gwResponses' = gwResponses + 1
  /\ gwPc' = "done"
  /\ UNCHANGED << origin, req, invokeQueryCalls, wire, apiResp, steps,
                  orchVars, configVars, pairVars, uiVars >>

\* apiClient.ts lines 330-346 and routes/query.ts lines 76-104:
\* fetch resolves with the response of the API Gateway stage.
FetchResolves ==
  /\ gwPc = "awaiting"
  /\ apiResp.status # 0
  /\ IF Ok(apiResp.status)
     THEN /\ fetchOutcome' = "ok"
          /\ gwResp' = Success(QueryResponse(apiResp.json))
          /\ UNCHANGED gwCaught
     ELSE LET message == StatusErrorMessage(apiResp.status, apiResp.text) IN
          /\ fetchOutcome' = "status"
          /\ gwCaught' = message
          /\ gwResp' = RouteCatch(message)
  /\ gwResponses' = gwResponses + 1
  /\ gwPc' = "done"
  /\ UNCHANGED << origin, req, invokeQueryCalls, wire, apiResp, steps,
                  orchVars, configVars, pairVars, uiVars >>

\* ------------------------------------------------------ API Gateway stage
\* The stage answers without invoking the function.
ApiGatewayRejects(response) ==
  /\ gwPc = "awaiting"
  /\ orchPc = "idle"
  /\ apiResp.status = 0
  /\ apiResp' = response
  /\ UNCHANGED << origin, steps, gwVars, orchVars, configVars, pairVars, uiVars >>

\* ----------------------------------------------------------- orchestrator
\* index.js lines 249-270: destructure event.body (outside the try), then
\* send the Retrieve command.
HandlerBegin(body) ==
  /\ lambda = "started"
  /\ event' = body
  /\ IF body.isNull
     THEN /\ orchPc' = "crashed"
          /\ orchThrown' = TypeErrorDestructure
          /\ apiResp' = ApiGatewayOwn(502, <<"Internal server error">>)
          /\ UNCHANGED << retrieveCalls, steps, retrieveInput >>
     ELSE /\ orchPc' = "retrieving"
          /\ retrieveInput' =
               RetrieveInput(lambdaEnv,
                             Get(body.fields, "question", Undefined))
          /\ retrieveCalls' = retrieveCalls + 1
          /\ steps' = Append(steps, "Retrieve")
          /\ UNCHANGED << orchThrown, apiResp >>
  /\ UNCHANGED << retrievalResults, context, citationUrl, orchResult,
                  orchCaught, invokeCalls, invokeInput, modelOutput,
                  retrieveOutcome, configVars, pairVars, uiVars >>

\* The forwarded request reaches the function.
HandlerStart ==
  /\ gwPc = "awaiting"
  /\ orchPc = "idle"
  /\ apiResp.status = 0
  /\ HandlerBegin(EventBody(wire))
  /\ UNCHANGED << origin, gwVars >>

\* A client posts to the API Gateway stage itself.
DirectPost(body) ==
  /\ origin = "none"
  /\ origin' = "direct"
  /\ HandlerBegin(body)
  /\ UNCHANGED gwVars

\* index.js lines 270-360: Retrieve returns; context and citation are
\* computed and the InvokeModel command is sent.
RetrieveReturns(results) ==
  /\ orchPc = "retrieving"
  /\ Truthy(lambdaEnv)
  /\ retrievalResults' = results
  /\ context' = Context(results)
  /\ citationUrl' = CitationUrl(results)
  /\ invokeInput' =
       InvokeInput(Get(event.fields, "modelId", Undefined),
                   UserPrompt(Context(results),
                              Get(event.fields, "conversationHistory",
                                  Undefined),
                              Get(event.fields, "question", Undefined)))
  /\ invokeCalls' = invokeCalls + 1
  /\ steps' = steps \o <<"Extract-Citation", "Compose", "Invoke">>
  /\ retrieveOutcome' = "returned"
  /\ orchPc' = "invoking"
  /\ UNCHANGED << origin, gwVars, apiResp, event, orchResult, orchCaught,
                  orchThrown, retrieveCalls, modelOutput, retrieveInput, configVars, pairVars, uiVars >>

\* The handler returns result through the Lambda proxy integration.
Return(result) ==
  /\ orchResult' = result
  /\ apiResp' = ProxyResponse(result)
  /\ steps' = Append(steps, "Respond")
  /\ orchPc' = "done"

\* A handler that drafts without context when Retrieve throws.
RetrieveThrowsFallback(message) ==
  /\ orchPc = "retrieving"
  /\ retrieveOutcome' = "threw"
  /\ invokeInput' =
       InvokeInput(Get(event.fields, "modelId", Undefined),
                   UserPrompt(<<>>,
                              Get(event.fields, "conversationHistory",
                                  Undefined),
                              Get(event.fields, "question", Undefined)))
  /\ invokeCalls' = invokeCalls + 1
  /\ steps' = steps \o <<"Compose", "Invoke">>
  /\ orchPc' = "invoking"
  /\ UNCHANGED << origin, gwVars, apiResp, event, retrievalResults, context,
                  citationUrl, orchResult, orchCaught, orchThrown,
                  retrieveCalls, modelOutput, retrieveInput, configVars, pairVars, uiVars >>

\* index.js lines 257-270, 376-379: Retrieve throws; without a knowledge
\* base id the command is rejected before it is sent.
RetrieveThrows(message) ==
  /\ orchPc = "retrieving"
  /\ (message = MissingKnowledgeBaseId) <=> ~Truthy(lambdaEnv)
  /\ retrieveOutcome' = "threw"
  /\ orchCaught' = message
  /\ Return(Failure(message))
  /\ UNCHANGED << origin, gwVars, event, retrievalResults, context,
                  citationUrl, orchThrown, retrieveCalls, invokeCalls,
                  invokeInput, modelOutput, retrieveInput, configVars, pairVars, uiVars >>

\* index.js lines 360-379: InvokeModel returns; the body is parsed and the
\* email assembled, or the parse throws.
InvokeReturns(output) ==
  /\ orchPc = "invoking"
  /\ IF output.kind = "text"
     THEN /\ Return(makeResults(200, FullEmail(output.text), citationUrl,
                      Get(event.fields, "requestSessionId", Undefined)))
          /\ UNCHANGED orchCaught
     ELSE /\ orchCaught' = ParseErrorMessage(output.kind)
          /\ Return(Failure(ParseErrorMessage(output.kind)))
  /\ modelOutput' = output
  /\ UNCHANGED << origin, gwVars, event, retrievalResults, context,
                  citationUrl, orchThrown, retrieveCalls, invokeCalls,
                  invokeInput, retrieveOutcome, retrieveInput,
                  configVars, pairVars, uiVars >>

\* A handler that sends the InvokeModel command again when it throws.
InvokeThrowsRetry(message) ==
  /\ orchPc = "invoking"
  /\ invokeCalls < 3
  /\ invokeCalls' = invokeCalls + 1
  /\ steps' = Append(steps, "Invoke")
  /\ UNCHANGED << origin, gwVars, apiResp, orchPc, event, retrievalResults,
                  context, citationUrl, orchResult, orchCaught, orchThrown,
                  retrieveCalls, invokeInput, modelOutput, retrieveInput, retrieveOutcome,
                  configVars, pairVars, uiVars >>

\* index.js lines 360, 376-379: InvokeModel throws.
InvokeThrows(message) ==
  /\ orchPc = "invoking"
  /\ orchCaught' = message
  /\ Return(Failure(message))
  /\ UNCHANGED << origin, gwVars, event, retrievalResults, context,
                  citationUrl, orchThrown, retrieveCalls, invokeCalls,
                  invokeInput, modelOutput, retrieveInput, retrieveOutcome, configVars, pairVars, uiVars >>

Next ==
  \/ \E knowledgeBaseId \in KnowledgeBaseIds : ColdStart(knowledgeBaseId)
  \/ \E url \in ApiGatewayUrls : ServerStart(url)
  \/ origin = "none" /\ server = "running"
       /\ \E body \in RequestBodies : PostAiDraft(body)
  \/ \E message \in BodyParserErrors : PostUnparsable(message)
  \/ \E message \in FetchErrors : FetchRejects(message)
  \/ FetchResolves
  \/ \E response \in ApiGatewayRejections : ApiGatewayRejects(response)
  \/ HandlerStart
  \/ \E body \in DirectEventBodies : DirectPost(body)
  \/ orchPc = "retrieving"
       /\ \E results \in RetrievalResults : RetrieveReturns(results)
  \/ \E message \in SdkErrors \cup {MissingKnowledgeBaseId} :
       RetrieveThrows(message)
  \/ \E output \in ModelOutputs : InvokeReturns(output)
  \/ \E message \in SdkErrors : InvokeThrows(message)

Spec == Init /\ [][Next]_vars

\* apiClient.ts line 322: the awaited fetch settles, it resolves with the
\* response of the stage or rejects.
FetchSettles ==
  FetchResolves \/ \E message \in FetchErrors : FetchRejects(message)

\* index.js lines 270 and 360: the awaited sends settle.
RetrieveSettles ==
  \/ orchPc = "retrieving"
       /\ \E results \in RetrievalResults : RetrieveReturns(results)
  \/ \E message \in SdkErrors \cup {MissingKnowledgeBaseId} :
       RetrieveThrows(message)
InvokeSettles ==
  \/ \E output \in ModelOutputs : InvokeReturns(output)
  \/ \E message \in SdkErrors : InvokeThrows(message)

\* ------------------------------------------- two requests in flight
singleVars == << origin, steps, gwVars, apiResp, orchVars, configVars >>

\* The other request is being handled.
InFlight(r) == \E o \in Requests \ {r} : pPc[o] \in { "retrieving", "invoking" }

\* A handler call reads its bindings.
Reads(r) == foreignRead' = (foreignRead \/ cells[Slot(r)].writer # r)

\* routes/query.ts lines 11-76: request r is validated and forwarded.
PairPost(r, body) ==
  /\ pPc[r] = "idle"
  /\ pReq' = [pReq EXCEPT ![r] = body]
  /\ overlapped' = (overlapped \/ InFlight(r))
  /\ LET outcome == Validate(body) IN
       IF outcome = "ok"
       THEN /\ pPc' = [pPc EXCEPT ![r] = "retrieving"]
            /\ cells' = [cells EXCEPT ![Slot(r)] =
                           [ queryRequest |-> QueryRequest(body),
                             context |-> <<>>, citationUrl |-> Null,
                             writer |-> r ]]
            /\ UNCHANGED pResp
       ELSE /\ pPc' = [pPc EXCEPT ![r] = "done"]
            /\ pResp' = [pResp EXCEPT ![r] =
                           IF outcome = "TypeError"
                           THEN RouteCatch(TypeErrorRole)
                           ELSE BadRequest(ValidationMessage(outcome))]
            /\ UNCHANGED cells
  /\ UNCHANGED << pRet, pInv, pInvokeInput, foreignRead, singleVars, uiVars >>

\* index.js lines 270-360: the Retrieve call of request r returns; context,
\* citation and prompt are computed and the InvokeModel command is sent.
PairRetrieveReturns(r, results) ==
  /\ pPc[r] = "retrieving"
  /\ Reads(r)
  /\ overlapped' = (overlapped \/ InFlight(r))
  /\ pRet' = [pRet EXCEPT ![r] =
                [ kind |-> "returned", results |-> results,
                  message |-> <<>> ]]
  /\ cells' = [cells EXCEPT ![Slot(r)].context = Context(results),
                            ![Slot(r)].citationUrl = CitationUrl(results),
                            ![Slot(r)].writer = r]
  /\ LET fields == cells[Slot(r)].queryRequest IN
       pInvokeInput' = [pInvokeInput EXCEPT ![r] =
         InvokeInput(Get(fields, "modelId", Undefined),
                     UserPrompt(Context(results),
                                Get(fields, "conversationHistory", Undefined),
                                Get(fields, "question", Undefined)))]
  /\ pPc' = [pPc EXCEPT ![r] = "invoking"]
  /\ UNCHANGED << pReq, pInv, pResp, singleVars, uiVars >>

\* index.js lines 270, 376-379 and routes/query.ts lines 84-104: the
\* Retrieve call of request r throws.
PairRetrieveThrows(r, message) ==
  /\ pPc[r] = "retrieving"
  /\ overlapped' = (overlapped \/ InFlight(r))
  /\ pRet' = [pRet EXCEPT ![r] =
                [ kind |-> "threw", results |-> NoResults,
                  message |-> message ]]
  /\ pResp' = [pResp EXCEPT ![r] = GatewayAnswer(Failure(message))]
  /\ pPc' = [pPc EXCEPT ![r] = "done"]
  /\ UNCHANGED << pReq, pInv, pInvokeInput, cells, foreignRead, singleVars, uiVars >>

\* index.js lines 360-379 and routes/query.ts lines 76-104: the InvokeModel
\* call of request r returns.
PairInvokeReturns(r, output) ==
  /\ pPc[r] = "invoking"
  /\ Reads(r)
  /\ overlapped' = (overlapped \/ InFlight(r))
  /\ pInv' = [pInv EXCEPT ![r] =
                [ kind |-> "returned", output |-> output, message |-> <<>> ]]
  /\ LET cell == cells[Slot(r)]
         result ==
           IF output.kind = "text"
           THEN makeResults(200, FullEmail(output.text), cell.citationUrl,
                            Get(cell.queryRequest, "requestSessionId",
                                Undefined))
           ELSE Failure(ParseErrorMessage(output.kind))
     IN pResp' = [pResp EXCEPT ![r] = GatewayAnswer(result)]
  /\ pPc' = [pPc EXCEPT ![r] = "done"]
  /\ UNCHANGED << pReq, pRet, pInvokeInput, cells, singleVars, uiVars >>

\* index.js lines 360, 376-379 and routes/query.ts lines 84-104: the
\* InvokeModel call of request r throws.
PairInvokeThrows(r, message) ==
  /\ pPc[r] = "invoking"
  /\ overlapped' = (overlapped \/ InFlight(r))
  /\ pInv' = [pInv EXCEPT ![r] =
                [ kind |-> "threw", output |-> NoModelOutput,
                  message |-> message ]]
  /\ pResp' = [pResp EXCEPT ![r] = GatewayAnswer(Failure(message))]
  /\ pPc' = [pPc EXCEPT ![r] = "done"]
  /\ UNCHANGED << pReq, pRet, pInvokeInput, cells, foreignRead, singleVars, uiVars >>

PairNext ==
  \E r \in Requests :
    \/ \E body \in PairBodies : PairPost(r, body)
    \/ \E results \in PairResults : PairRetrieveReturns(r, results)
    \/ \E message \in SdkErrors : PairRetrieveThrows(r, message)
    \/ \E output \in ModelOutputs : PairInvokeReturns(r, output)
    \/ \E message \in SdkErrors : PairInvokeThrows(r, message)

PairSpec == Init /\ [][PairNext]_vars

\* --------------------------------------------------------------- the UI
\* App.js line 273: the user types a question (the field is disabled while
\* the spinner shows).
UiType(question) ==
  /\ ~uiSpinner
  /\ question # uiQuestion
  /\ uiQuestion' = question
  /\ UNCHANGED << uiHistory, uiSelectedModel, uiSpinner, uiSessionId,
                  uiPending, uiSends, uiChanged, uiLastReply, uiLastEntry,
                  uiAdded, uiClearStamp, singleVars, pairVars >>

\* App.js lines 60-73 and 304-306: Send is pressed; the request is sent
\* and the callbacks close over history and question of this render.
handleSendQuestion ==
  /\ ~uiSpinner
  /\ uiSends < MaxSends
  /\ uiSpinner' = TRUE
  /\ uiSends' = uiSends + 1
  /\ uiPending' =
       [ present |-> TRUE, id |-> uiSends + 1, history |-> uiHistory,
         question |-> uiQuestion,
         body |-> UiBody(uiSessionId, uiQuestion, uiSelectedModel),
         afterChange |-> uiChanged ]
  /\ uiChanged' = FALSE
  /\ uiLastReply' = NoReply
  /\ uiLastEntry' = NoEntry
  /\ UNCHANGED << uiHistory, uiSelectedModel, uiQuestion, uiSessionId,
                  uiAdded, uiClearStamp, singleVars, pairVars >>

\* App.js lines 74-99: the fetch settles and one of the callbacks runs.
UiSettles(reply) ==
  /\ uiPending.present
  /\ LET entry ==
           IF reply.kind = "json"
           THEN Entry(uiPending.id, uiPending.question, reply.data.response,
                      reply.data.citation)
           ELSE Entry(uiPending.id, uiPending.question, Str(ErrorText),
                      Undefined)
     IN /\ uiHistory' = Append(uiPending.history, entry)
        /\ uiLastEntry' = entry
  /\ uiSessionId' =
       IF reply.kind = "json" THEN reply.data.sessionId ELSE uiSessionId
  /\ uiSpinner' = FALSE
  /\ uiAdded' = uiPending.id
  /\ uiLastReply' = reply
  /\ uiPending' = NoPending
  /\ UNCHANGED << uiSelectedModel, uiQuestion, uiSends, uiChanged,
                  uiClearStamp, singleVars, pairVars >>

\* App.js lines 108 and 228-231: Clear is pressed (enabled while the chat
\* has an entry).
onClearHistory ==
  /\ Len(uiHistory) > 0
  /\ uiHistory' = <<>>
  /\ uiClearStamp' = uiAdded
  /\ UNCHANGED << uiSelectedModel, uiQuestion, uiSpinner, uiSessionId,
                  uiPending, uiSends, uiChanged, uiLastReply, uiLastEntry,
                  uiAdded, singleVars, pairVars >>

\* App.js lines 135-138 and 452-454: a model is chosen or the choice is
\* removed.
handleChangeModel(model) ==
  /\ uiSelectedModel' = model
  /\ uiSessionId' = Undefined
  /\ uiChanged' = TRUE
  /\ UNCHANGED << uiHistory, uiQuestion, uiSpinner, uiPending, uiSends,
                  uiLastReply, uiLastEntry, uiAdded, uiClearStamp,
                  singleVars, pairVars >>

UiNext ==
  \/ \E question \in UiQuestions : UiType(question)
  \/ handleSendQuestion
  \/ \E reply \in BackendReplies : UiSettles(reply)
  \/ onClearHistory
  \/ \E model \in UiModels : handleChangeModel(model)

UiSpec == Init /\ [][UiNext]_vars

\* The bodies posted when termination is checked: every question and
\* every history, without a session id, with no modelId or an unknown one.
FairBodies ==
  { body \in RequestBodies :
      /\ body.requestSessionId = Undefined
      /\ body.modelId \in { Undefined, Str(<<"not-a-real-model">>) } }

FairNext ==
  \/ \E knowledgeBaseId \in KnowledgeBaseIds : ColdStart(knowledgeBaseId)
  \/ \E url \in ApiGatewayUrls : ServerStart(url)
  \/ origin = "none" /\ server = "running"
       /\ \E body \in FairBodies : PostAiDraft(body)
  \/ \E message \in BodyParserErrors : PostUnparsable(message)
  \/ \E message \in FetchErrors : FetchRejects(message)
  \/ FetchResolves
  \/ \E response \in ApiGatewayRejections : ApiGatewayRejects(response)
  \/ HandlerStart
  \/ \E body \in DirectEventBodies : DirectPost(body)
  \/ orchPc = "retrieving"
       /\ \E results \in RetrievalResults : RetrieveReturns(results)
  \/ \E message \in SdkErrors \cup {MissingKnowledgeBaseId} :
       RetrieveThrows(message)
  \/ \E output \in ModelOutputs : InvokeReturns(output)
  \/ \E message \in SdkErrors : InvokeThrows(message)

\* Every external call either returns or fails.
FairSpec ==
  /\ Init
  /\ [][FairNext]_vars
  /\ WF_vars(FetchSettles)
  /\ WF_vars(RetrieveSettles)
  /\ WF_vars(InvokeSettles)

\* ================================================================ claims
Whitelist == { Str(Haiku), Str(Sonnet), Str(Opus) }
AllowedRoles == { Str(<<"customer">>), Str(<<"agent">>) }
GenericUnavailable == <<"Bedrock Knowledge Base temporarily unavailable">>
EnvelopeKeys == { "statusCode", "error", "message" }

\* The question is missing, is not text, is empty or is white space only.
QuestionInvalid(q) ==
  q.t # "string" \/ \A i \in 1..Len(q.s) : q.s[i] \in WhiteSpace

\* C1: a POST /ai-draft request whose question is missing, not text, empty
\* or whitespace-only is answered 400 and apiClient.invokeQuery is never
\* invoked for it (nothing is forwarded, the orchestrator does not start).
C1_InvalidQuestionRejected ==
  (origin = "gateway" /\ QuestionInvalid(req.question))
    => /\ gwPc = "done"
       /\ gwResp.status = 400
       /\ invokeQueryCalls = 0
       /\ DOMAIN wire = {}
       /\ orchPc = "idle"

\* A whitespace-only question has been answered 400.
C1_Witness ==
  /\ origin = "gateway"
  /\ req.question = Str(<<" ", "\t">>)
  /\ gwPc = "done"
  /\ gwResp.status = 400

\* C2: a POST /ai-draft request that carries a modelId which is not one of
\* the three whitelisted identifiers is answered 400, whatever the value or
\* type of that modelId.
C2_UnknownModelRejected ==
  (origin = "gateway" /\ gwPc = "done" /\ req.modelId.t # "undefined"
     /\ req.modelId \notin Whitelist)
    => gwResp.status = 400

\* The history is an array with an entry whose role is not an allowed one.
HasInvalidRole(h) ==
  /\ h.t = "array"
  /\ \E i \in 1..Len(h.items) :
       h.items[i].t = "object" /\ h.items[i].role \notin AllowedRoles

\* C3: a POST /ai-draft request whose conversationHistory is an array with
\* at least one entry whose role is not "customer" or "agent" is answered
\* 400, wherever the entry stands and whatever the other entries are.
C3_InvalidRoleRejected ==
  (origin = "gateway" /\ gwPc = "done"
     /\ HasInvalidRole(req.conversationHistory))
    => gwResp.status = 400

\* The history is a sequence whose elements all have a role and a content.
HistoryWellFormed(h) ==
  /\ h.t = "array"
  /\ \A i \in 1..Len(h.items) :
       /\ h.items[i].t = "object"
       /\ h.items[i].role.t # "undefined"
       /\ h.items[i].content.t # "undefined"

\* C4: a present conversationHistory is accepted only if it is a sequence
\* whose elements all have role and content; one that is not a sequence, or
\* has an element lacking role or content, is answered 400.
C4_MalformedHistoryRejected ==
  (origin = "gateway" /\ gwPc = "done"
     /\ req.conversationHistory.t # "undefined"
     /\ ~HistoryWellFormed(req.conversationHistory))
    => gwResp.status = 400

\* The three checks of the route handler, stated on the request body.
QuestionPassed(q) ==
  q.t = "string" /\ \E i \in 1..Len(q.s) : q.s[i] \notin WhiteSpace

ModelIdPassed(m) == Truthy(m) => m \in Whitelist

HistoryPassed(h) ==
  Truthy(h) =>
    /\ h.t = "array"
    /\ \A i \in 1..Len(h.items) :
         /\ h.items[i].t = "object"
         /\ Truthy(h.items[i].role)
         /\ Truthy(h.items[i].content)
         /\ h.items[i].role \in AllowedRoles

\* C5: a 400 answer of POST /ai-draft has the body {statusCode: 400, error,
\* message} and no call to the orchestrator was made for the request;
\* conversely the orchestrator is called only for a request that passed the
\* question, modelId and conversationHistory checks.
C5_ValidationBeforeOrchestrator ==
  /\ gwResp.status = 400 =>
       /\ DOMAIN gwResp.body = EnvelopeKeys
       /\ gwResp.body.statusCode = 400
       /\ invokeQueryCalls = 0
       /\ DOMAIN wire = {}
       /\ orchPc = "idle"
  /\ (origin = "gateway" /\ (invokeQueryCalls > 0 \/ orchPc # "idle")) =>
       /\ QuestionPassed(req.question)
       /\ ModelIdPassed(req.modelId)
       /\ HistoryPassed(req.conversationHistory)

\* A request with a good question and modelId was answered 400 for its
\* conversationHistory.
C5_Witness ==
  /\ gwResp.status = 400
  /\ QuestionPassed(req.question)
  /\ ModelIdPassed(req.modelId)
  /\ ~HistoryPassed(req.conversationHistory)

\* C6: every failure raised while the orchestrator handles a request is
\* caught at the handler's outer boundary and converted into a response
\* with statusCode 500; no exception leaves the handler for any event.
C6_AllFailuresCaught ==
  /\ orchThrown = NoMessage
  /\ orchPc # "crashed"
  /\ orchCaught # NoMessage =>
       (orchPc = "done" /\ orchResult.statusCode = 500)

\* C7: no response body of the orchestrator or of the gateway contains the
\* message of the exception that was caught while producing it, so that
\* the body is the same whatever that message is.
C7_NoExceptionTextInBody ==
  /\ (gwCaught # NoMessage /\ gwPc = "done") =>
       ~Includes(gwResp.body.message, gwCaught)
  /\ (orchCaught # NoMessage /\ orchPc = "done") =>
       ~Includes(orchResult.body.response.s, orchCaught)

\* C8: when the forwarded call fails because it cannot be completed or
\* returns a non-success status, the gateway answers 503 with the generic
\* "temporarily unavailable" message; 500 is the answer to other failures
\* only.
C8_ServiceFailureIs503 ==
  (origin = "gateway" /\ gwPc = "done"
     /\ fetchOutcome \in {"network", "status"})
    => /\ gwResp.status = 503
       /\ gwResp.body.message = GenericUnavailable

\* C9 as stated: an exception inside the orchestrator (such as a model
\* response that cannot be parsed) reaches the client of POST /ai-draft as
\* status 500, not 503.
C9_OrchestratorErrorIs500 ==
  (origin = "gateway" /\ gwPc = "done" /\ fetchOutcome # "network"
     /\ orchCaught # NoMessage)
    => gwResp.status = 500

\* C9 (amended): an exception inside the orchestrator (such as a model
\* response that cannot be parsed) is returned by the orchestrator with
\* statusCode 500, and the gateway that receives this response answers the
\* client of POST /ai-draft with status 503 and the generic "temporarily
\* unavailable" message.
C9_OrchestratorErrorIs503 ==
  (origin = "gateway" /\ gwPc = "done" /\ fetchOutcome # "network"
     /\ orchCaught # NoMessage)
    => /\ orchResult.statusCode = 500
       /\ gwResp.status = 503
       /\ gwResp.body = Envelope(503, <<"Service Unavailable">>,
                                 GenericUnavailable)

\* A model response without content was parsed and the gateway answered.
C9_Witness ==
  /\ origin = "gateway"
  /\ gwPc = "done"
  /\ fetchOutcome = "status"
  /\ orchCaught = ParseErrorMessage("noContent")

\* C10: the sessionId of the response equals the session id sent in the
\* request, unchanged, or is null when the request carried none.
C10_SessionIdEchoed ==
  (origin = "gateway" /\ gwPc = "done" /\ gwResp.status = 200)
    => Get(gwResp.body, "sessionId", Undefined)
         = (IF req.requestSessionId.t = "undefined" THEN Null
            ELSE req.requestSessionId)

\* The URI or URL a passage was retrieved from, Null when it has none.
SourceLocation(passage) ==
  IF Truthy(passage.location.uri) THEN passage.location.uri
  ELSE IF Truthy(passage.location.url) THEN passage.location.url
  ELSE Null

Retrieved == invokeCalls > 0
SomePassages == Retrieved /\ Len(retrievalResults.list) > 0
ZeroPassages == Retrieved /\ Len(retrievalResults.list) = 0
Drafted == orchPc = "done" /\ orchResult.statusCode = 200
GatewaySucceeded == gwPc = "done" /\ gwResp.status = 200

\* C11: when retrieval returned one or more passages, the citation of a
\* successful response, as the orchestrator returns it and as the gateway
\* sends it, is the source location of the first-ranked passage (no
\* citation when that passage has no location), whatever the other
\* passages are.
C11_CitationIsFirstPassage ==
  /\ (Drafted /\ SomePassages)
       => Get(orchResult.body, "citation", Null)
            = SourceLocation(retrievalResults.list[1])
  /\ (GatewaySucceeded /\ SomePassages)
       => gwResp.body.citation = SourceLocation(retrievalResults.list[1])

\* Two passages with different locations were retrieved and the response
\* cites the first.
C11_Witness ==
  /\ GatewaySucceeded
  /\ Len(retrievalResults.list) = 2
  /\ SourceLocation(retrievalResults.list[2]) # Null
  /\ SourceLocation(retrievalResults.list[1]) # Null
  /\ SourceLocation(retrievalResults.list[1])
       # SourceLocation(retrievalResults.list[2])
  /\ gwResp.body.citation = SourceLocation(retrievalResults.list[1])

UserPromptSent == invokeInput.messages[1].content
Mentions(text, token) == \E i \in 1..Len(text) : text[i] = token
NoKnowledgeInstruction ==
  "The company knowledge base does not contain information relevant to this inquiry. Draft an appropriate email reply."

\* C12: when retrieval returned no passage (an empty or an absent list),
\* the user prompt sent to the model holds the instruction that the
\* knowledge base has nothing relevant and holds no company-knowledge
\* block, and the citation of the response is null.
C12_NoPassagesNoKnowledge ==
  ZeroPassages
    => /\ Mentions(UserPromptSent, NoKnowledgeInstruction)
       /\ ~Mentions(UserPromptSent, "<company_knowledge>")
       /\ ~Mentions(UserPromptSent, "</company_knowledge>")
       /\ orchPc = "done" => orchResult.body.citation = Null
       /\ (origin = "gateway" /\ GatewaySucceeded)
            => gwResp.body.citation = Null

\* A draft was sent for a request whose retrieval returned an empty list.
C12_Witness ==
  /\ ZeroPassages
  /\ retrievalResults.present
  /\ GatewaySucceeded
  /\ gwResp.body.citation = Null

\* C13: the response text of a successful draft is the greeting
\* "Hi {{CUSTOMER_NAME}},", a blank line and the text the model returned,
\* unchanged: no placeholder is substituted.
C13_GreetingThenContinuation ==
  /\ Drafted
       => orchResult.body.response
            = Str(<<"Hi {{CUSTOMER_NAME}},", "\n\n">> \o modelOutput.text)
  /\ (origin = "gateway" /\ GatewaySucceeded)
       => gwResp.body.response
            = Str(<<"Hi {{CUSTOMER_NAME}},", "\n\n">> \o modelOutput.text)

\* A draft whose continuation holds a placeholder was sent.
C13_Witness ==
  /\ origin = "gateway"
  /\ GatewaySucceeded
  /\ Mentions(modelOutput.text, "{{CS_REP_NAME}}")
  /\ Mentions(gwResp.body.response.s, "{{CS_REP_NAME}}")
  /\ Mentions(gwResp.body.response.s, "Hi {{CUSTOMER_NAME}},")

\* C14: when the Retrieve call fails, no InvokeModel call is made for the
\* request and the request ends in a failure (no draft is returned); an
\* InvokeModel call is made only after Retrieve has returned.
C14_RetrieveFailureIsFatal ==
  /\ retrieveOutcome = "threw"
       => /\ invokeCalls = 0
          /\ invokeInput = NoInvokeInput
          /\ orchPc = "done"
          /\ orchResult.statusCode = 500
          /\ (origin = "gateway" /\ gwPc = "done") => gwResp.status >= 500
  /\ invokeCalls > 0 => retrieveOutcome = "returned"

\* Retrieve failed and the gateway answered the request with a failure.
C14_Witness ==
  /\ retrieveOutcome = "threw"
  /\ origin = "gateway"
  /\ gwPc = "done"
  /\ fetchOutcome = "status"
  /\ gwResp.status = 503
  /\ invokeCalls = 0

\* C15: nothing is retried: for one request apiClient.invokeQuery is
\* called at most once, and the handler sends at most one Retrieve and at
\* most one InvokeModel command, whether the calls succeed or fail.
C15_NoRetry ==
  /\ invokeQueryCalls <= 1
  /\ retrieveCalls <= 1
  /\ invokeCalls <= 1

\* Each call was made once, the InvokeModel call failed, and the request
\* was answered with a failure.
C15_Witness ==
  /\ origin = "gateway"
  /\ gwPc = "done"
  /\ gwResp.status = 503
  /\ invokeQueryCalls = 1
  /\ retrieveCalls = 1
  /\ invokeCalls = 1
  /\ modelOutput = NoModelOutput

ClaimedOrder ==
  << "Validate", "Retrieve", "Compose", "Invoke", "Extract-Citation",
     "Respond" >>
CodeOrder ==
  << "Validate", "Retrieve", "Extract-Citation", "Compose", "Invoke",
     "Respond" >>
Rank(order, step) == CHOOSE i \in 1..Len(order) : order[i] = step
InOrder(order) ==
  \A i, j \in 1..Len(steps) :
    i < j => Rank(order, steps[i]) < Rank(order, steps[j])

C17_SuccessBodyShape ==
  (origin = "gateway" /\ GatewaySucceeded)
    => /\ DOMAIN gwResp.body = { "response", "citation", "sessionId" }
       /\ gwResp.body.response = orchResult.body.response
       /\ gwResp.body.citation.t \in { "string", "null" }
       /\ gwResp.body.sessionId.t \in { "string", "null" }

TerminalStatuses == { 200, 400, 500, 503 }
Posted == origin \in { "gateway", "malformed" }
Answered ==
  gwPc = "done" /\ gwResponses = 1 /\ gwResp.status \in TerminalStatuses

\* C18: when every external call returns or fails, every request to POST
\* /ai-draft ends in one terminal outcome: exactly one response is sent for
\* it, never a second one, and its status is 200, 400, 500 or 503.
C18_OneTerminalOutcome ==
  /\ [](Posted => /\ gwResponses <= 1
                  /\ gwPc = "done" <=> gwResponses = 1
                  /\ gwPc = "done" => gwResp.status \in TerminalStatuses)
  /\ Posted ~> Answered

\* A forwarded request was answered once, after the call had settled.
C18_Witness ==
  /\ origin = "gateway"
  /\ fetchOutcome # "none"
  /\ Answered

\* C20: the knowledge-base id and the base URL are both required when the
\* process starts: a process started without its setting handles no
\* request, and no request fails because a setting is missing.
C20_ConfigurationRequiredAtStart ==
  /\ (server # "none" /\ ~Truthy(apiGatewayUrl))
       => server = "exited" /\ gwPc = "idle" /\ gwResponses = 0
  /\ (lambda # "none" /\ ~Truthy(lambdaEnv))
       => orchPc = "idle" /\ retrieveCalls = 0
  /\ orchCaught # MissingKnowledgeBaseId

\* The response of the gateway to a request handled by itself, given what
\* its own Retrieve and InvokeModel calls did.
Alone(body, ret, inv) ==
  LET outcome == Validate(body) IN
  IF outcome = "TypeError" THEN RouteCatch(TypeErrorRole)
  ELSE IF outcome # "ok" THEN BadRequest(ValidationMessage(outcome))
  ELSE IF ret.kind = "threw" THEN GatewayAnswer(Failure(ret.message))
  ELSE IF inv.kind = "threw" THEN GatewayAnswer(Failure(inv.message))
  ELSE IF inv.output.kind # "text"
  THEN GatewayAnswer(Failure(ParseErrorMessage(inv.output.kind)))
  ELSE GatewayAnswer(
         makeResults(200, FullEmail(inv.output.text),
                     CitationUrl(ret.results),
                     Get(QueryRequest(body), "requestSessionId", Undefined)))

\* The InvokeModel input of a request handled by itself.
AloneInvokeInput(body, ret) ==
  LET fields == QueryRequest(body) IN
  InvokeInput(Get(fields, "modelId", Undefined),
              UserPrompt(Context(ret.results),
                         Get(fields, "conversationHistory", Undefined),
                         Get(fields, "question", Undefined)))

\* C19: for every interleaving of two requests in flight, the response to
\* each and the prompt sent for each are determined by its own fields and
\* by what its own Retrieve and InvokeModel calls returned, and no handler
\* call reads a binding that the handling of the other request wrote.
C19_RequestsIndependent ==
  /\ ~foreignRead
  /\ \A r \in Requests :
       /\ pPc[r] = "done" => pResp[r] = Alone(pReq[r], pRet[r], pInv[r])
       /\ pRet[r].kind = "returned"
            => pInvokeInput[r] = AloneInvokeInput(pReq[r], pRet[r])

\* Two different requests were handled at the same time, both were
\* answered 200, and the answers differ.
C19_Witness ==
  /\ overlapped
  /\ \A r \in Requests : pPc[r] = "done" /\ pResp[r].status = 200
  /\ pReq[1] # pReq[2]
  /\ pRet[1] # pRet[2]
  /\ pResp[1].body.citation # pResp[2].body.citation
  /\ pResp[1].body.sessionId # pResp[2].body.sessionId

\* The request of the UI failed: it could not be completed, its body could
\* not be read, or the backend answered with an error status.
UiFailed(reply) ==
  \/ reply.kind \in { "network", "notJson" }
  \/ reply.kind \in { "json", "null" } /\ reply.status >= 400

\* C21: in the UI, a draft request that fails adds a chat entry with the
\* fixed text that tells the user to check configuration and logs, and
\* clears the spinner; the failure is not shown as a draft.
C21_FailureShowsErrorEntry ==
  UiFailed(uiLastReply)
    => /\ ~uiSpinner
       /\ uiLastEntry.id = uiSends
       /\ uiLastEntry.response = Str(ErrorText)

\* C22: in the UI, after Clear is pressed the chat holds no entry that was
\* added before the Clear, also when a response arrives after it.
C22_ClearRemovesEarlierEntries ==
  \A i \in 1..Len(uiHistory) : uiHistory[i].id > uiClearStamp

\* C23: in the UI, the first request sent after the model was changed
\* carries no session id, also when the response of an earlier request
\* arrived after the change.
C23_ModelChangeResetsSession ==
  (uiPending.present /\ uiPending.afterChange)
    => Get(uiPending.body, "requestSessionId", Undefined).t
         \in { "undefined", "null" }

\* ------------------------------------------------------------ C24 .. C30
Invoked == invokeCalls > 0
EventField(k) == Get(event.fields, k, Undefined)
IsPrefix(p, text) == Len(p) <= Len(text) /\ SubSeq(text, 1, Len(p)) = p
IsSuffix(p, text) ==
  Len(p) <= Len(text)
    /\ SubSeq(text, Len(text) - Len(p) + 1, Len(text)) = p

\* C24: for a request that passed the validation of the gateway, the model
\* id given to the model invoker is in the whitelist: the modelId of the
\* request when it names a model, the default Claude 3 Haiku id otherwise.
C24_InvokedModelWhitelisted ==
  (origin = "gateway" /\ Invoked)
    => /\ invokeInput.modelId \in Whitelist
       /\ req.modelId \in Whitelist => invokeInput.modelId = req.modelId
       /\ req.modelId \notin Whitelist
            => invokeInput.modelId
                 = Str(<<"anthropic.claude-3-haiku-20240307-v1:0">>)

\* A request with an empty modelId passed the gateway and the model was
\* invoked with the default id.
C24_Witness ==
  /\ origin = "gateway"
  /\ Invoked
  /\ req.modelId = Str(<<>>)
  /\ invokeInput.modelId = Str(<<"anthropic.claude-3-haiku-20240307-v1:0">>)

GreetingLiteral == <<"Hi {{CUSTOMER_NAME}},">>

\* C25: every model invocation gets exactly two turns, the user turn with
\* the composed prompt and then an assistant turn whose content is the
\* greeting literal, and the response text of every successful draft, as
\* the orchestrator returns it and as the gateway sends it, starts with
\* that literal.
C25_TwoTurnsWithGreeting ==
  /\ Invoked
       => /\ Len(invokeInput.messages) = 2
          /\ invokeInput.messages[1].role = "user"
          /\ invokeInput.messages[1].content
               = UserPrompt(context, EventField("conversationHistory"),
                            EventField("question"))
          /\ invokeInput.messages[2]
               = [ role |-> "assistant", content |-> GreetingLiteral ]
  /\ Drafted
       => IsPrefix(GreetingLiteral,
                   Get(orchResult.body, "response", Undefined).s)
  /\ GatewaySucceeded
       => IsPrefix(GreetingLiteral,
                   Get(gwResp.body, "response", Undefined).s)

\* The gateway sent a draft that the model produced after the prefilled
\* greeting.
C25_Witness ==
  /\ GatewaySucceeded
  /\ Drafted
  /\ Len(invokeInput.messages) = 2
  /\ invokeInput.messages[2].content = GreetingLiteral
  /\ IsPrefix(GreetingLiteral, gwResp.body.response.s)
  /\ Len(gwResp.body.response.s) > Len(GreetingLiteral)

HistoryGiven == EventField("conversationHistory")
HistoryNonEmpty == HistoryGiven.t = "array" /\ Len(HistoryGiven.items) > 0

RoleLabel(role) ==
  CASE role = Str(<<"customer">>) -> "Customer"
    [] role = Str(<<"agent">>) -> "CS Rep"
    [] OTHER -> "?"

\* The labeled lines of the entries from the n-th on.
RECURSIVE LabeledLines(_, _)
LabeledLines(items, n) ==
  IF n > Len(items) THEN <<>>
  ELSE <<"[", RoleLabel(items[n].role), "]: ">> \o items[n].content.s
         \o (IF n < Len(items) THEN <<"\n\n">> ELSE <<>>)
         \o LabeledLines(items, n + 1)

HistorySectionClaimed ==
  <<"<conversation_history>", "\n">> \o LabeledLines(HistoryGiven.items, 1)
    \o <<"\n", "</conversation_history>", "\n\n">>

\* C26: with a non-empty conversationHistory the user prompt begins with
\* the history section, one line per entry in the order of the request,
\* labeled [Customer] for role "customer" and [CS Rep] for role "agent",
\* and the knowledge block or the inquiry follows the section; with an
\* empty or a missing history the prompt holds no history section.
C26_HistorySectionFirst ==
  Invoked
    => IF HistoryNonEmpty
       THEN /\ IsPrefix(HistorySectionClaimed, UserPromptSent)
            /\ UserPromptSent[Len(HistorySectionClaimed) + 1]
                 \in { "<company_knowledge>", "<customer_inquiry>" }
            /\ \A i \in (Len(HistorySectionClaimed) + 1)..Len(UserPromptSent) :
                 UserPromptSent[i]
                   \notin { "<conversation_history>",
                            "</conversation_history>" }
       ELSE /\ UserPromptSent[1]
                 \in { "<company_knowledge>", "<customer_inquiry>" }
            /\ ~Mentions(UserPromptSent, "<conversation_history>")
            /\ ~Mentions(UserPromptSent, "</conversation_history>")

\* A prompt was sent for a history of a customer entry followed by an
\* agent entry, with retrieved knowledge after the section.
C26_Witness ==
  /\ Invoked
  /\ HistoryNonEmpty
  /\ Len(HistoryGiven.items) = 2
  /\ HistoryGiven.items[1].role = Str(<<"customer">>)
  /\ HistoryGiven.items[2].role = Str(<<"agent">>)
  /\ IsPrefix(HistorySectionClaimed, UserPromptSent)
  /\ UserPromptSent[Len(HistorySectionClaimed) + 1] = "<company_knowledge>"

DraftInstructions ==
  { "Draft an email reply to answer the customer's inquiry using the company knowledge provided above.",
    "The company knowledge base does not contain information relevant to this inquiry. Draft an appropriate email reply." }
HistoryMentions ==
  { " Consider the conversation history to maintain context and continuity.",
    " Consider the conversation history to maintain context." }

\* C27: the user turn ends with an instruction to draft a reply, with and
\* without retrieved knowledge, and the instruction mentions the
\* conversation history exactly when conversationHistory is non-empty.
C27_EndsWithDraftInstruction ==
  Invoked
    => LET p == UserPromptSent
           n == Len(p)
       IN IF HistoryNonEmpty
          THEN /\ n >= 2
               /\ p[n] \in HistoryMentions
               /\ p[n - 1] \in DraftInstructions
          ELSE /\ n >= 1
               /\ p[n] \in DraftInstructions
               /\ \A i \in 1..n : p[i] \notin HistoryMentions

\* A prompt without retrieved knowledge was sent for a request with a
\* history, and its instruction mentions the history.
C27_Witness ==
  /\ Invoked
  /\ HistoryNonEmpty
  /\ context = <<>>
  /\ UserPromptSent[Len(UserPromptSent)] \in HistoryMentions
  /\ UserPromptSent[Len(UserPromptSent) - 1] \in DraftInstructions

PassageText(passage) ==
  IF passage.text.t = "string" THEN passage.text.s ELSE <<>>

\* The blocks of the first n passages.
RECURSIVE NumberedBlocks(_, _)
NumberedBlocks(list, n) ==
  IF n = 0 THEN <<>>
  ELSE (IF n > 1 THEN NumberedBlocks(list, n - 1) \o <<"\n\n">> ELSE <<>>)
         \o <<"[Source ", ToString(n), "]: ">> \o PassageText(list[n])

KnowledgeBlockClaimed ==
  <<"<company_knowledge>", "\n">>
    \o NumberedBlocks(retrievalResults.list, Len(retrievalResults.list))
    \o <<"\n", "</company_knowledge>">>

\* C28: with n >= 1 retrieved passages the context is the n blocks
\* "[Source i]: text" in rank order separated by blank lines, a passage
\* without text included, and the prompt is the one with the knowledge
\* block.
C28_OneBlockPerPassage ==
  SomePassages
    => /\ context
            = NumberedBlocks(retrievalResults.list,
                             Len(retrievalResults.list))
       /\ Includes(UserPromptSent, KnowledgeBlockClaimed)
       /\ Mentions(UserPromptSent,
                   "Draft an email reply to answer the customer's inquiry using the company knowledge provided above.")
       /\ ~Mentions(UserPromptSent, NoKnowledgeInstruction)

\* Retrieval returned one passage, which has no text, and the prompt with
\* the knowledge block was sent.
C28_Witness ==
  /\ SomePassages
  /\ Len(retrievalResults.list) = 1
  /\ retrievalResults.list[1].text = Undefined
  /\ context = <<"[Source ", "1", "]: ">>
  /\ Includes(UserPromptSent, KnowledgeBlockClaimed)

OrchestratorFailed == orchPc = "done" /\ orchResult.statusCode = 500

\* C29: every 500 result of the orchestrator has citation null and
\* sessionId null, whatever session id the request had and whether or not
\* retrieval had produced a citation.
C29_FailureHasNoCitationNoSession ==
  OrchestratorFailed
    => /\ Get(orchResult.body, "citation", Undefined) = Null
       /\ Get(orchResult.body, "sessionId", Undefined) = Null
       /\ Includes(orchResult.text, <<"\"", "citation", "\":", "null">>)
       /\ Includes(orchResult.text, <<"\"", "sessionId", "\":", "null">>)

\* The handler failed after retrieval had produced a citation, for a
\* request with a session id.
C29_Witness ==
  /\ OrchestratorFailed
  /\ citationUrl.t = "string"
  /\ EventField("requestSessionId") = Str(<<"session-123-abc">>)
  /\ Get(orchResult.body, "citation", Undefined) = Null
  /\ Get(orchResult.body, "sessionId", Undefined) = Null

ForwardedFields ==
  { "question", "requestSessionId", "modelId", "conversationHistory" }

\* The text between the first and the last token that is not white space.
Stripped(s) ==
  LET kept == { i \in 1..Len(s) : s[i] \notin {" ", "\t", "\n"} } IN
  IF kept = {} THEN <<>>
  ELSE SubSeq(s, CHOOSE i \in kept : \A j \in kept : i <= j,
                 CHOOSE i \in kept : \A j \in kept : i >= j)

Forwarded == origin = "gateway" /\ invokeQueryCalls > 0
RetrieveSent == retrieveCalls > 0

\* C30: the request the gateway forwards holds the question without its
\* leading and trailing white space and requestSessionId, modelId and
\* conversationHistory as they were received, and no other property of the
\* inbound body; the orchestrator gives the question it received, as it
\* is, to the Retrieve command as the query text.
C30_ForwardedRequestShape ==
  /\ Forwarded
       => /\ DOMAIN wire \subseteq ForwardedFields
          /\ Get(wire, "question", Undefined) = Str(Stripped(req.question.s))
          /\ \A k \in ForwardedFields \ {"question"} :
               IF k \in DOMAIN wire THEN wire[k] = req[k]
               ELSE req[k].t = "undefined"
  /\ RetrieveSent
       => retrieveInput.text = EventField("question")
  /\ (Forwarded /\ RetrieveSent)
       => retrieveInput.text = Str(Stripped(req.question.s))

\* A body with a padded question, a numeric session id and a property the
\* handler does not read was forwarded and its question was sent to
\* Retrieve.
C30_Witness ==
  /\ Forwarded
  /\ RetrieveSent
  /\ req.question = Str(<<" ", "X", " ">>)
  /\ req.requestSessionId = Num("42")
  /\ "userId" \in DOMAIN req
  /\ DOMAIN wire = { "question", "requestSessionId" }
  /\ wire.question = Str(<<"X">>)
  /\ retrieveInput.text = Str(<<"X">>)

====
